---------------------------- MODULE Spec2Model ----------------------------
(***************************************************************************)
(* A model of gidari's Accept-header negotiation (internal/decode/         *)
(* accept.go) and of its API-key signing transport (internal/web/auth/     *)
(* api_key.go).                                                            *)
(*                                                                         *)
(* Strings.  A Go string is modelled as a sequence of lexemes: every       *)
(* delimiter, blank, sign, dot and digit is a lexeme of its own            *)
(* ("," ";" "/" "=" " " "+" "-" "." "0".."9"), and a maximal run of the    *)
(* remaining characters is one lexeme ("application", "json", "q", "*").   *)
(* Two Go strings are equal exactly when their lexeme sequences are, and   *)
(* strings.Split / SplitN / TrimSpace / strconv.ParseFloat are computed on *)
(* the lexemes the way the library computes them on the characters.        *)
(*                                                                         *)
(* Floats.  A float64 is a record [k, v]: k = "num" with v the value in    *)
(* hundredths, k = "inf" with v the sign, or k = "nan".  Comparisons are   *)
(* the IEEE ones: every ordered comparison with a NaN is false.            *)
(***************************************************************************)
EXTENDS Integers, Sequences, FiniteSets

VARIABLES
    header,     \* the Accept header value handed to the package
    pc,         \* "start", "parsed" (parseAcceptHeader returned),
                \* "fit" (bestFitDecodeType returned), "resorted"
    accepted,   \* the AcceptSlice held by the caller
    before,     \* history: the slice as it was before the last sort.Sort
    result,     \* the decodeType returned by bestFitDecodeType, or "none"
    auth,       \* the APIKey transport's fields
    req,        \* the *http.Request the caller handed to RoundTrip
    given,      \* history: req as it was when RoundTrip was called
    sent,       \* the request handed to http.DefaultTransport, or NoRequest
    rtErr       \* the outcome of RoundTrip: "none", "ok" or the error

negVars == <<header, pc, accepted, before, result>>
authVars == <<auth, req, given, sent, rtErr>>
vars == <<header, pc, accepted, before, result, auth, req, given, sent, rtErr>>

-----------------------------------------------------------------------------
(* Bounds *)

\* The largest number of comma-separated range tokens in a header.
MaxRanges == 3

-----------------------------------------------------------------------------
(* Library functions on strings *)

\* The position of the k-th separator among the positions seps of a string of
\* n lexemes; 0 and n + 1 stand for the two ends of the string.
SeparatorAt(seps, k, n) ==
    IF k = 0 THEN 0
    ELSE IF k > Cardinality(seps) THEN n + 1
    ELSE CHOOSE i \in seps : Cardinality({j \in seps : j <= i}) = k

\* The pieces of s between the separator positions seps.
Pieces(s, seps) ==
    [k \in 1..(Cardinality(seps) + 1) |->
        SubSeq(s, SeparatorAt(seps, k - 1, Len(s)) + 1, SeparatorAt(seps, k, Len(s)) - 1)]

\* strings.Split(s, sep): the pieces between the separators, one more than
\* there are separators.
Split(s, sep) == Pieces(s, {i \in 1..Len(s) : s[i] = sep})

\* s cut in two around position i, or left whole when i = 0.
CutAt(s, i) == IF i = 0 THEN <<s>> ELSE <<SubSeq(s, 1, i - 1), SubSeq(s, i + 1, Len(s))>>

\* The least element of a set of positions, or 0 for the empty set.
First(positions) ==
    IF positions = {} THEN 0 ELSE CHOOSE i \in positions : \A j \in positions : i <= j

\* The greatest element of a set of positions, or 0 for the empty set.
Last(positions) ==
    IF positions = {} THEN 0 ELSE CHOOSE i \in positions : \A j \in positions : j <= i

\* strings.SplitN(s, sep, 2): cut at the first separator only.
SplitN2(s, sep) == CutAt(s, First({i \in 1..Len(s) : s[i] = sep}))

\* s from its first to its last lexeme among the positions solid.
Between(s, solid) == IF solid = {} THEN <<>> ELSE SubSeq(s, First(solid), Last(solid))

\* strings.TrimSpace(s): s from its first to its last lexeme that is no blank.
TrimSpace(s) == Between(s, {i \in 1..Len(s) : s[i] # " "})

RECURSIVE Join(_, _)
\* strings.Join: how a header is written from its range tokens.
Join(parts, sep) ==
    IF Len(parts) = 0 THEN <<>>
    ELSE IF Len(parts) = 1 THEN parts[1]
    ELSE parts[1] \o <<sep>> \o Join(Tail(parts), sep)

-----------------------------------------------------------------------------
(* float64 and strconv.ParseFloat *)

Num(h) == [k |-> "num", v |-> h]
NaN == [k |-> "nan", v |-> 0]
PosInf == [k |-> "inf", v |-> 1]
NegInf == [k |-> "inf", v |-> -1]

\* The position of a float on the real line, for values that are not NaN.
FOrd(x) == IF x.k = "inf" THEN x.v * 1000000 ELSE x.v

\* a > b and a < b on float64.
FGt(a, b) == a.k # "nan" /\ b.k # "nan" /\ FOrd(a) > FOrd(b)
FLt(a, b) == a.k # "nan" /\ b.k # "nan" /\ FOrd(a) < FOrd(b)

Digits == <<"0", "1", "2", "3", "4", "5", "6", "7", "8", "9">>
IsDigit(c) == \E n \in 1..10 : Digits[n] = c
DigitVal(c) == (CHOOSE n \in 1..10 : Digits[n] = c) - 1

RECURSIVE DecimalValue(_, _)
\* The value of a digit string read as an integer, acc being the value so far.
DecimalValue(ds, acc) ==
    IF ds = <<>> THEN acc ELSE DecimalValue(Tail(ds), acc * 10 + DigitVal(Head(ds)))

\* The fraction digits fs in hundredths (the headers of the model carry at most
\* two fraction digits, for which this is exact).
FractionValue(fs) ==
    (IF Len(fs) >= 1 THEN 10 * DigitVal(fs[1]) ELSE 0)
    + (IF Len(fs) >= 2 THEN DigitVal(fs[2]) ELSE 0)

\* The float written with the integer digits ip and the fraction digits fp,
\* or a syntax error: there must be a digit, and only digits.
ParseDecimal(ip, fp) ==
    IF /\ Len(ip) + Len(fp) >= 1
       /\ \A i \in 1..Len(ip) : IsDigit(ip[i])
       /\ \A i \in 1..Len(fp) : IsDigit(fp[i])
    THEN [err |-> FALSE, val |-> Num(DecimalValue(ip, 0) * 100 + FractionValue(fp))]
    ELSE [err |-> TRUE, val |-> Num(0)]

\* An unsigned s whose pieces around the dots are parts: "Inf", or a decimal
\* with at most one dot.
ParseParts(s, parts) ==
    IF s = <<"Inf">> THEN [err |-> FALSE, val |-> PosInf]
    ELSE IF Len(parts) > 2 THEN [err |-> TRUE, val |-> Num(0)]
    ELSE ParseDecimal(parts[1], IF Len(parts) = 2 THEN parts[2] ELSE <<>>)

\* strconv.ParseFloat on a string without sign.
ParseUnsigned(s) == ParseParts(s, Split(s, "."))

\* The result u of parsing what follows the sign of s, with the sign applied.
WithSign(s, u) ==
    IF s # <<>> /\ Head(s) = "-" /\ ~u.err
    THEN [err |-> FALSE, val |-> IF u.val.k = "inf" THEN NegInf ELSE Num(0 - u.val.v)]
    ELSE u

\* strconv.ParseFloat(s, 64): "NaN", or an optional sign and the unsigned value.
ParseFloat(s) ==
    IF s = <<"NaN">> THEN [err |-> FALSE, val |-> NaN]
    ELSE WithSign(s, ParseUnsigned(IF s # <<>> /\ Head(s) \in {"+", "-"} THEN Tail(s) ELSE s))

-----------------------------------------------------------------------------
(* accept.go: the accept struct, AcceptSlice and its sort.Interface *)

decodeTypeUnknown == "Unknown"
decodeTypeJSON == "JSON"

Star == <<"*">>
One == Num(100)
Zero == Num(0)

\* An accept value: typ, subtype, qualityFactor and the extensions map.
NewAccept(typ, subtype) ==
    [typ |-> typ, subtype |-> subtype, qualityFactor |-> One, extensions |-> <<>>]

\* len(a.extensions)
NumExtensions(e) == Cardinality(DOMAIN e.extensions)

\* A Less that leaves out the comparison of the numbers of extensions.
LessWithoutExtensions(a, i, j) ==
    IF FGt(a[i].qualityFactor, a[j].qualityFactor) THEN TRUE
    ELSE IF FLt(a[i].qualityFactor, a[j].qualityFactor) THEN FALSE
    ELSE IF a[i].typ # Star /\ a[j].typ = Star THEN TRUE
    ELSE IF a[i].typ = Star /\ a[j].typ # Star THEN FALSE
    ELSE IF a[i].subtype # Star /\ a[j].subtype = Star THEN TRUE
    ELSE FALSE

\* AcceptSlice.Less(i, j)
Less(a, i, j) ==
    IF FGt(a[i].qualityFactor, a[j].qualityFactor) THEN TRUE
    ELSE IF FLt(a[i].qualityFactor, a[j].qualityFactor) THEN FALSE
    ELSE IF a[i].typ # Star /\ a[j].typ = Star THEN TRUE
    ELSE IF a[i].typ = Star /\ a[j].typ # Star THEN FALSE
    ELSE IF a[i].subtype # Star /\ a[j].subtype = Star THEN TRUE
    ELSE IF a[i].subtype = Star /\ a[j].subtype # Star THEN FALSE
    ELSE IF NumExtensions(a[i]) > NumExtensions(a[j]) THEN TRUE
    ELSE FALSE

\* The rearrangements of the indices 1..n.
Rearrangements(n) ==
    {p \in [1..n -> 1..n] : \A i, j \in 1..n : p[i] = p[j] => i = j}

\* The slice a rearranged by p.
Permuted(a, p) == [i \in 1..Len(a) |-> a[p[i]]]

\* No element of the slice is Less than the element before it.
Ordered(a) == \A i \in 1..(Len(a) - 1) : ~Less(a, i + 1, i)

\* sort.Sort(a).  The library sorts by Less and Swap and "is not guaranteed to
\* be stable": which of the orders that Less accepts comes out depends on the
\* library's algorithm, so every rearrangement in which no element is Less
\* than its predecessor is an outcome.  The result is the rearrangement p.
SortOutcomes(a) == {p \in Rearrangements(Len(a)) : Ordered(Permuted(a, p))}

-----------------------------------------------------------------------------
(* accept.go: parseMediaRange and parseAcceptHeader *)

\* A type or subtype after "Sanitize typeSubtype": trimmed, and "*" if empty.
Sanitized(t) == IF t = <<>> THEN Star ELSE t

\* parseMediaRange from the length check on, typeSubtype being the split of
\* rangeParams[0] at "/".
CheckTypeSubtype(rangeParams, typeSubtype) ==
    IF Len(typeSubtype) > 2
    THEN [rangeParams |-> rangeParams, typeSubtype |-> typeSubtype, err |-> TRUE]
    ELSE [rangeParams |-> rangeParams,
          typeSubtype |-> <<Sanitized(TrimSpace(Append(typeSubtype, Star)[1])),
                            Sanitized(TrimSpace(Append(typeSubtype, Star)[2]))>>,
          err |-> FALSE]

\* parseMediaRange from the second split on.
SplitTypeSubtype(rangeParams) == CheckTypeSubtype(rangeParams, Split(rangeParams[1], "/"))

\* parseMediaRange(mediaRange): rangeParams, typeSubtype and whether err # nil.
parseMediaRange(mediaRange) == SplitTypeSubtype(Split(mediaRange, ";"))

\* accept.extensions[name] = value
SetExtension(ext, name, value) ==
    [n \in (DOMAIN ext) \cup {name} |-> IF n = name THEN value ELSE ext[n]]

\* The q branch of the loop over rangeParams[1:], parsed being the outcome of
\* strconv.ParseFloat: the loop breaks, or the quality factor is stored.
StoreQuality(parsed, acc) ==
    IF parsed.err \/ FLt(parsed.val, Zero) THEN [break |-> TRUE, accept |-> acc]
    ELSE [break |-> FALSE,
          accept |-> [acc EXCEPT !.qualityFactor =
                         IF FGt(parsed.val, One) THEN One ELSE parsed.val]]

\* The loop body for a parameter with the trimmed name and value.
StoreParam(name, value, acc) ==
    IF name = <<"q">> THEN StoreQuality(ParseFloat(value), acc)
    ELSE [break |-> FALSE,
          accept |-> [acc EXCEPT !.extensions = SetExtension(@, name, value)]]

\* The loop body from the length check of nameVal on.
CheckNameVal(nameVal, acc) ==
    IF Len(nameVal) # 2 THEN [break |-> TRUE, accept |-> acc]
    ELSE StoreParam(TrimSpace(nameVal[1]), TrimSpace(nameVal[2]), acc)

\* The body of the loop over rangeParams[1:] for the parameter token v, acc
\* being the accept value so far: whether the loop breaks with validParams
\* false, and the accept value after the pass.
ValidateParam(v, acc) == CheckNameVal(SplitN2(v, "="), acc)

\* The loop over rangeParams[1:] continued after a pass.
RECURSIVE ValidateParams(_, _, _)
AfterPass(rangeParams, i, acc, pass) ==
    IF pass.break THEN [validParams |-> FALSE, accept |-> acc]
    ELSE ValidateParams(rangeParams, i + 1, pass.accept)

\* The loop over rangeParams[1:], from parameter i on: the value of
\* validParams and the accept value at its end.
ValidateParams(rangeParams, i, acc) ==
    IF i > Len(rangeParams) THEN [validParams |-> TRUE, accept |-> acc]
    ELSE AfterPass(rangeParams, i, acc, ValidateParam(rangeParams[i], acc))

\* An end of the pass that appends the accept value whatever validParams is.
AppendAlways(checked) == [appended |-> TRUE, accept |-> checked.accept]

\* The end of a pass: the accept value is appended if validParams.
AppendIfValid(checked) == [appended |-> checked.validParams, accept |-> checked.accept]

\* The pass for a range token from the construction of the accept value on.
EntryOf(mr) ==
    IF mr.err THEN [appended |-> FALSE, accept |-> NewAccept(Star, Star)]
    ELSE IF Len(mr.rangeParams) = 1
    THEN [appended |-> TRUE, accept |-> NewAccept(mr.typeSubtype[1], mr.typeSubtype[2])]
    ELSE AppendIfValid(ValidateParams(mr.rangeParams, 2,
                           NewAccept(mr.typeSubtype[1], mr.typeSubtype[2])))

\* One pass of the loop of parseAcceptHeader over a range token: whether an
\* accept value is appended, and the value.
BuildEntry(mediaRange) == EntryOf(parseMediaRange(mediaRange))

\* The index of the k-th pass that appends, kept being the appending passes.
KeptAt(kept, k) == CHOOSE i \in kept : Cardinality({j \in kept : j <= i}) = k

\* The accept values of the passes that append, in the order of the passes.
Appended(pass, kept) == [k \in 1..Cardinality(kept) |-> pass[KeptAt(kept, k)].accept]

\* The passes of the loop that append an entry.
Keep(pass) == Appended(pass, {i \in 1..Len(pass) : pass[i].appended})

\* The loop of parseAcceptHeader over the range tokens: the appended accept
\* values, in the order of their range tokens.
AppendEntries(mediaRanges) ==
    Keep([i \in 1..Len(mediaRanges) |-> BuildEntry(mediaRanges[i])])

\* The slice accepted as it is just before sort.Sort.
BuiltEntries(h) == AppendEntries(Split(h, ","))

\* The slice b after sort.Sort: the slices that can come out.
Ranked(b) == {Permuted(b, p) : p \in SortOutcomes(b)}

\* parseAcceptHeader(h): the slices it can return.
parseAcceptHeader(h) == Ranked(BuiltEntries(h))

-----------------------------------------------------------------------------
(* accept.go: bestFitDecodeType *)

RECURSIVE WalkWithoutAnySubtype(_, _)
\* A loop that takes application/json but not application/* for JSON.
WalkWithoutAnySubtype(a, i) ==
    IF i > Len(a) THEN decodeTypeUnknown
    ELSE IF a[i].typ = Star /\ a[i].subtype = Star THEN decodeTypeJSON
    ELSE IF a[i].typ = <<"application">> /\ a[i].subtype = <<"json">> THEN decodeTypeJSON
    ELSE WalkWithoutAnySubtype(a, i + 1)

RECURSIVE Walk(_, _)
\* The loop of bestFitDecodeType over the ranked slice, from entry i on.
Walk(a, i) ==
    IF i > Len(a) THEN decodeTypeUnknown
    ELSE IF a[i].typ = Star /\ a[i].subtype = Star THEN decodeTypeJSON
    ELSE IF /\ a[i].typ = <<"application">>
            /\ (a[i].subtype = <<"json">> \/ a[i].subtype = Star)
    THEN decodeTypeJSON
    ELSE Walk(a, i + 1)

\* A bestFitDecodeType that looks at the top-ranked entry only.
BestFitTopRanked(a) == IF Len(a) = 0 THEN decodeTypeJSON ELSE Walk(SubSeq(a, 1, 1), 1)

\* bestFitDecodeType, given the slice parseAcceptHeader returned.
BestFit(a) == IF Len(a) = 0 THEN decodeTypeJSON ELSE Walk(a, 1)

-----------------------------------------------------------------------------
(* The headers of the model *)

Empty == <<>>
Json == <<"application", "/", "json">>
Html == <<"text", "/", "html">>
Wildcard == <<"*", "/", "*">>
XmlQ09 == <<"application", "/", "xml", ";", "q", "=", "0", ".", "9">>
JsonQ08 == <<" ", "application", "/", "json", ";", "q", "=", "0", ".", "8">>
AppAnyQ10 == <<"application", "/", "*", " ", ";", " ", "q", " ", "=", " ", "1", ".", "0">>
HtmlLevel == <<"text", "/", "html", ";", "level", "=", "1">>
JsonQ15 == <<"application", "/", "json", ";", "q", "=", "1", ".", "5">>
JsonQNaN == <<"application", "/", "json", ";", "q", "=", "NaN">>
JsonQNegative == <<"application", "/", "json", ";", "q", "=", "-", "1">>
HtmlQWord == <<"text", "/", "html", ";", "q", "=", "abc">>
HtmlNoValue == <<"text", "/", "html", ";", "level">>
HtmlTwoSlashes == <<"text", "/", "html", "/", "x">>

\* The range tokens a header is written from: well-formed ones, and one for
\* each way a token is dropped.
RangeTokens ==
    { Empty, Json, Html, Wildcard, XmlQ09, JsonQ08, AppAnyQ10, HtmlLevel, JsonQ15, JsonQNaN,
      JsonQNegative, HtmlQWord, HtmlNoValue, HtmlTwoSlashes }

\* The range tokens the longest headers are written from: entries that tie,
\* entries that each comparison key tells apart, and a dropped token.
CoreTokens == {Json, Html, JsonQ08, XmlQ09, HtmlLevel, HtmlTwoSlashes}

\* The sequences of 1..n tokens of the set.
TokenLists(tokens, n) == UNION {[1..k -> tokens] : k \in 1..n}

\* The header values: range tokens joined by commas, up to MaxRanges of the
\* core tokens or fewer of any tokens.  The empty header is the one made of
\* the empty token alone.
Headers ==
    {Join(ts, ",") :
        ts \in TokenLists(RangeTokens, MaxRanges - 1) \cup TokenLists(CoreTokens, MaxRanges)}

-----------------------------------------------------------------------------
(* The negotiation state machine *)

NegInit ==
    /\ header \in Headers
    /\ pc = "start"
    /\ accepted = <<>>
    /\ before = <<>>
    /\ result = "none"

\* A caller parses the header: parseAcceptHeader(header).
ParseAcceptHeader ==
    /\ pc = "start"
    /\ accepted' \in parseAcceptHeader(header)
    /\ before' = BuiltEntries(header)
    /\ pc' = "parsed"
    /\ UNCHANGED <<header, result>>

\* A caller classifies the header: bestFitDecodeType(header), which parses the
\* header itself.
BestFitDecodeType ==
    /\ pc = "start"
    /\ accepted' \in parseAcceptHeader(header)
    /\ result' = BestFit(accepted')
    /\ before' = BuiltEntries(header)
    /\ pc' = "fit"
    /\ UNCHANGED header

\* A caller ranks the returned slice again: sort.Sort(accepted).
SortAgain ==
    /\ pc = "parsed"
    /\ accepted' \in Ranked(accepted)
    /\ before' = accepted
    /\ pc' = "resorted"
    /\ UNCHANGED <<header, result>>

-----------------------------------------------------------------------------
(* api_key.go: the library functions RoundTrip relies on *)

RECURSIVE FormatDigits(_, _)
\* The digits of n > 0 in the given base, most significant first.
FormatDigits(n, base) ==
    IF n = 0 THEN <<>> ELSE Append(FormatDigits(n \div base, base), Digits[(n % base) + 1])

\* strconv.FormatInt(n, base) for n >= 0 and base <= 10.
FormatInt(n, base) == IF n = 0 THEN <<"0">> ELSE FormatDigits(n, base)

\* The first index at which old occurs in s, or 0.
IndexOf(s, old) ==
    LET hits == {i \in 1..(Len(s) - Len(old) + 1) : SubSeq(s, i, i + Len(old) - 1) = old}
    IN  IF hits = {} THEN 0 ELSE CHOOSE i \in hits : \A k \in hits : i <= k

\* strings.Replace(s, old, "", 1): the first occurrence of old cut out.
ReplaceFirstWithEmpty(s, old) ==
    LET i == IndexOf(s, old)
    IN  IF i = 0 THEN s ELSE SubSeq(s, 1, i - 1) \o SubSeq(s, i + Len(old), Len(s))

\* A *url.URL: nil, or its Scheme, Host and Path.
NilURL == [nil |-> TRUE, Scheme |-> <<>>, Host |-> <<>>, Path |-> <<>>]
URL(scheme, host, path) == [nil |-> FALSE, Scheme |-> scheme, Host |-> host, Path |-> path]

\* (*url.URL).String()
URLString(u) ==
    (IF u.Scheme # <<>> THEN u.Scheme \o <<":">> ELSE <<>>)
    \o (IF (u.Scheme # <<>> \/ u.Host # <<>>) /\ (u.Host # <<>> \/ u.Path # <<>>)
        THEN <<"//">> ELSE <<>>)
    \o u.Host \o u.Path

\* url.Parse(s): the URL, or nil when the string has a colon and no scheme
\* before it.  The authority runs from "//" to the next "/".
URLParse(s) ==
    LET hasScheme == Len(s) >= 2 /\ s[2] = ":"
        scheme == IF hasScheme THEN <<s[1]>> ELSE <<>>
        rest == IF hasScheme THEN SubSeq(s, 3, Len(s)) ELSE s
        hasHost == rest # <<>> /\ Head(rest) = "//"
        afterSlashes == IF hasHost THEN Tail(rest) ELSE rest
        cut == IndexOf(afterSlashes, <<"/">>)
        hostEnd == IF cut = 0 THEN Len(afterSlashes) ELSE cut - 1
    IN  IF s # <<>> /\ Head(s) = ":" THEN NilURL
        ELSE IF hasHost
        THEN URL(scheme, SubSeq(afterSlashes, 1, hostEnd),
                 SubSeq(afterSlashes, hostEnd + 1, Len(afterSlashes)))
        ELSE URL(scheme, <<>>, rest)

\* base64.StdEncoding.DecodeString on the secrets of the model.
Base64Decode(secret) ==
    IF secret = <<>> THEN [err |-> FALSE, bytes |-> <<>>]
    ELSE IF secret = <<"c2VjcmV0">> THEN [err |-> FALSE, bytes |-> <<"secret">>]
    ELSE IF secret = <<"a2V5">> THEN [err |-> FALSE, bytes |-> <<"key">>]
    ELSE [err |-> TRUE, bytes |-> <<>>]

\* base64.StdEncoding.EncodeToString of the HMAC-SHA256 of message under key,
\* kept as the term that names it.
EncodedHMAC(key, message) == <<"base64", "hmac-sha256">> \o key \o <<"|">> \o message

\* The first letter of a header-name word in upper case.
Title(w) ==
    CASE w = "content" -> "Content"
      [] w = "type" -> "Type"
      [] w = "cb" -> "Cb"
      [] w = "access" -> "Access"
      [] w = "key" -> "Key"
      [] w = "passphrase" -> "Passphrase"
      [] w = "sign" -> "Sign"
      [] w = "timestamp" -> "Timestamp"
      [] OTHER -> w

\* textproto.CanonicalMIMEHeaderKey: every word between hyphens capitalised.
CanonicalKey(name) == [i \in 1..Len(name) |-> Title(name[i])]

\* http.Header.Set and http.Header.Add
HeaderSet(h, name, value) ==
    [n \in (DOMAIN h) \cup {CanonicalKey(name)} |->
        IF n = CanonicalKey(name) THEN <<value>> ELSE h[n]]
HeaderAdd(h, name, value) ==
    [n \in (DOMAIN h) \cup {CanonicalKey(name)} |->
        IF n = CanonicalKey(name)
        THEN (IF n \in DOMAIN h THEN h[n] ELSE <<>>) \o <<value>>
        ELSE h[n]]

\* A request body: nil, or a reader that delivers data and then ends with
\* io.EOF or, when fails, with an error.
NilBody == [nil |-> TRUE, data |-> <<>>, fails |-> FALSE]
Reader(data, fails) == [nil |-> FALSE, data |-> data, fails |-> fails]

-----------------------------------------------------------------------------
(* api_key.go: APIKey *)

apiKeyTimestampBase == 10

\* NewAPIKey()
NewAPIKey == [key |-> <<>>, passphrase |-> <<>>, secret |-> <<>>, url |-> NilURL]

\* generateSig(message): the signature, or the decoding error.
generateSig(a, message) ==
    LET key == Base64Decode(a.secret)
    IN  IF key.err THEN [err |-> TRUE, sig |-> <<>>]
        ELSE [err |-> FALSE, sig |-> EncodedHMAC(key.bytes, message)]

\* A parsebytes that leaves the drained body in the request.
parsebytesDrained(r) ==
    IF r.Body.nil THEN [bytes |-> <<>>, Body |-> r.Body]
    ELSE [bytes |-> r.Body.data, Body |-> Reader(<<>>, FALSE)]

\* parsebytes(req): the bytes returned and the body left in the request.
parsebytes(r) ==
    IF r.Body.nil THEN [bytes |-> <<>>, Body |-> r.Body]
    ELSE [bytes |-> r.Body.data, Body |-> Reader(r.Body.data, FALSE)]

\* generageMsg(req, timestamp)
generageMsg(a, r, timestamp) ==
    LET postAuthority == ReplaceFirstWithEmpty(URLString(r.URL), URLString(a.url))
    IN  timestamp \o r.Method \o postAuthority \o parsebytes(r).bytes

\* The header of the request after the five header calls of RoundTrip.
SignedHeader(h, a, sig, timestamp) ==
    LET h1 == HeaderSet(h, <<"content", "-", "type">>, <<"application", "/", "json">>)
        h2 == HeaderAdd(h1, <<"cb", "-", "access", "-", "key">>, a.key)
        h3 == HeaderAdd(h2, <<"cb", "-", "access", "-", "passphrase">>, a.passphrase)
        h4 == HeaderAdd(h3, <<"cb", "-", "access", "-", "sign">>, sig)
    IN  HeaderAdd(h4, <<"cb", "-", "access", "-", "timestamp">>, timestamp)

\* The request as RoundTrip hands it to http.DefaultTransport.
SignedRequest(a, r, sig, timestamp) ==
    [Method |-> r.Method,
     URL |-> [r.URL EXCEPT !.Scheme = a.url.Scheme, !.Host = a.url.Host],
     Header |-> SignedHeader(r.Header, a, sig, timestamp),
     Body |-> parsebytes(r).Body]

-----------------------------------------------------------------------------
(* The values of the signing model *)

Keys == {<<>>, <<"key-id-1">>}
Passphrases == {<<>>, <<"open sesame">>}
Secrets == {<<>>, <<"c2VjcmV0">>, <<"not base64!">>}
URLStrings ==
    { <<"https", ":", "//", "api.exchange.test">>,
      <<"http", ":", "//", "localhost", "/", "v2">>,
      <<":", "//", "no-scheme">> }
Clock == {1667260800, 1667260801}

EmptyHeader == <<>>
ContentType == <<"Content", "-", "Type">>
AccessKey == <<"Cb", "-", "Access", "-", "Key">>
AccessPassphrase == <<"Cb", "-", "Access", "-", "Passphrase">>
AccessSign == <<"Cb", "-", "Access", "-", "Sign">>
AccessTimestamp == <<"Cb", "-", "Access", "-", "Timestamp">>
Accept == <<"Accept">>

\* The headers a caller sets before the request reaches the transport.
CallerHeaders ==
    { EmptyHeader,
      [n \in {ContentType, Accept} |->
          IF n = ContentType THEN <<<<"text", "/", "xml">>>> ELSE <<<<"*", "/", "*">>>>],
      [n \in {Accept, AccessKey} |->
          IF n = Accept THEN <<<<"text", "/", "html">>>> ELSE <<<<"stale-key">>>>] }

CallerURLs ==
    { URL(<<>>, <<>>, <<"/", "accounts">>),
      URL(<<"https">>, <<"api.exchange.test">>, <<"/", "orders">>),
      URL(<<"http">>, <<"proxy.internal">>, <<"/", "orders">>) }

CallerBodies == {NilBody, Reader(<<"{", "}">>, FALSE), Reader(<<"{">>, TRUE)}

Requests ==
    [Method : {<<"GET">>, <<"POST">>}, URL : CallerURLs,
     Header : CallerHeaders, Body : CallerBodies]

NoRequest ==
    [Method |-> <<>>, URL |-> NilURL, Header |-> EmptyHeader, Body |-> NilBody]

-----------------------------------------------------------------------------
(* The signing state machine *)

AuthInit ==
    /\ auth = NewAPIKey
    /\ req \in Requests
    /\ given = NoRequest
    /\ sent = NoRequest
    /\ rtErr = "none"

SetKey ==
    /\ rtErr = "none"
    /\ \E k \in Keys : auth' = [auth EXCEPT !.key = k]
    /\ UNCHANGED <<req, given, sent, rtErr>>

SetPassphrase ==
    /\ rtErr = "none"
    /\ \E p \in Passphrases : auth' = [auth EXCEPT !.passphrase = p]
    /\ UNCHANGED <<req, given, sent, rtErr>>

SetSecret ==
    /\ rtErr = "none"
    /\ \E s \in Secrets : auth' = [auth EXCEPT !.secret = s]
    /\ UNCHANGED <<req, given, sent, rtErr>>

SetURL ==
    /\ rtErr = "none"
    /\ \E u \in URLStrings : auth' = [auth EXCEPT !.url = URLParse(u)]
    /\ UNCHANGED <<req, given, sent, rtErr>>

\* RoundTrip(req) at clock reading now; delivered tells whether
\* http.DefaultTransport.RoundTrip returned a response.
RoundTripAt(now, delivered) ==
    LET timestamp == FormatInt(now, apiKeyTimestampBase)
        msg == generageMsg(auth, req, timestamp)
        signed == generateSig(auth, msg)
    IN  /\ given' = req
        /\ IF auth.url.nil
           THEN /\ rtErr' = "ErrURLRequired"
                /\ UNCHANGED <<req, sent>>
           ELSE IF signed.err
           THEN /\ rtErr' = "error decoding secret"
                /\ req' = [req EXCEPT !.Body = parsebytes(req).Body]
                /\ UNCHANGED sent
           ELSE /\ req' = SignedRequest(auth, req, signed.sig, timestamp)
                /\ sent' = req'
                /\ rtErr' = IF delivered THEN "ok" ELSE "error making request"

RoundTrip ==
    /\ rtErr = "none"
    /\ \E now \in Clock, delivered \in BOOLEAN : RoundTripAt(now, delivered)
    /\ UNCHANGED auth

-----------------------------------------------------------------------------
(* Specifications *)

NegIdle ==
    /\ header = <<>>
    /\ pc = "start"
    /\ accepted = <<>>
    /\ before = <<>>
    /\ result = "none"

AuthIdle ==
    /\ auth = NewAPIKey
    /\ req = NoRequest
    /\ given = NoRequest
    /\ sent = NoRequest
    /\ rtErr = "none"

Init == NegInit /\ AuthIdle

AuthSpecInit == AuthInit /\ NegIdle

Next ==
    \/ ParseAcceptHeader /\ UNCHANGED authVars
    \/ BestFitDecodeType /\ UNCHANGED authVars
    \/ SortAgain /\ UNCHANGED authVars

\* Content negotiation: one header, parsed, classified, ranked again.
Spec == Init /\ [][Next]_vars

AuthNext ==
    \/ SetKey /\ UNCHANGED negVars
    \/ SetPassphrase /\ UNCHANGED negVars
    \/ SetSecret /\ UNCHANGED negVars
    \/ SetURL /\ UNCHANGED negVars
    \/ RoundTrip /\ UNCHANGED negVars

\* Request signing: a transport is configured and one request goes through it.
AuthSpec == AuthSpecInit /\ [][AuthNext]_vars

-----------------------------------------------------------------------------
(* Vocabulary of the properties *)

\* parseAcceptHeader or bestFitDecodeType has returned.
Returned == pc \in {"parsed", "fit"}

\* The range tokens of a header.
RangesOf(h) == Split(h, ",")

\* An entry that bestFitDecodeType takes for the JSON family.
IsRegistered(e) ==
    \/ e.typ = Star /\ e.subtype = Star
    \/ e.typ = <<"application">> /\ e.subtype \in {<<"json">>, Star}

\* The two entries agree on the four comparison keys.
TiedOnAllKeys(x, y) ==
    /\ x.qualityFactor = y.qualityFactor
    /\ (x.typ = Star) = (y.typ = Star)
    /\ (x.subtype = Star) = (y.subtype = Star)
    /\ NumExtensions(x) = NumExtensions(y)

\* The keys after the quality factor, most significant first.
Specificity(e) ==
    <<IF e.typ = Star THEN 0 ELSE 1, IF e.subtype = Star THEN 0 ELSE 1, NumExtensions(e)>>

\* x is strictly preferred to y: a higher quality factor or, the quality
\* factors being tied (neither is higher), a greater tuple of later keys.
Preferred(x, y) ==
    \/ FGt(x.qualityFactor, y.qualityFactor)
    \/ /\ ~FGt(y.qualityFactor, x.qualityFactor)
       /\ \E k \in 1..3 :
             /\ Specificity(x)[k] > Specificity(y)[k]
             /\ \A m \in 1..(k - 1) : Specificity(x)[m] = Specificity(y)[m]

\* How often the entry e occurs in the slice a.
Count(a, e) == Cardinality({i \in 1..Len(a) : a[i] = e})

\* The slices a and b hold the same entries, each as often.
SameEntries(a, b) ==
    /\ Len(a) = Len(b)
    /\ \A i \in 1..Len(a) : Count(a, a[i]) = Count(b, a[i])

\* A range token the parser drops: a type/subtype with more than one "/", a
\* parameter that is no name=value, or a q that is no number or is negative.
BadParam(v) ==
    \/ Len(SplitN2(v, "=")) # 2
    \/ /\ TrimSpace(SplitN2(v, "=")[1]) = <<"q">>
       /\ \/ ParseFloat(TrimSpace(SplitN2(v, "=")[2])).err
          \/ FLt(ParseFloat(TrimSpace(SplitN2(v, "=")[2])).val, Zero)
Malformed(t) ==
    \/ Len(Split(Split(t, ";")[1], "/")) > 2
    \/ \E k \in 2..Len(Split(t, ";")) : BadParam(Split(t, ";")[k])

\* The sequence s without its i-th element.
Without(s, i) == SubSeq(s, 1, i - 1) \o SubSeq(s, i + 1, Len(s))

\* The decode types bestFitDecodeType can return for h.
Classifications(h) == {BestFit(a) : a \in parseAcceptHeader(h)}

\* The rearrangement p of a slice keeps entries tied on all keys in the order
\* they had.
KeepsTies(a, p) ==
    \A i, j \in 1..Len(a) : (i < j /\ TiedOnAllKeys(a[p[i]], a[p[j]])) => p[i] < p[j]

-----------------------------------------------------------------------------
(* Properties of the negotiation *)

\* C1: a non-empty header all of whose range tokens are dropped as invalid is
\* classified Unknown, not JSON.
C1_AllDroppedIsUnknown ==
    (/\ pc = "fit"
     /\ header # <<>>
     /\ \A i \in 1..Len(RangesOf(header)) : Malformed(RangesOf(header)[i]))
    => result = decodeTypeUnknown

\* C2: when the ranked list is not empty, the header is classified JSON exactly
\* if some entry, at any rank, is */*, application/json or application/*, and
\* Unknown otherwise.
C2_JSONIffSomeEntryRegistered ==
    (pc = "fit" /\ accepted # <<>>)
    => /\ result \in {decodeTypeJSON, decodeTypeUnknown}
       /\ (result = decodeTypeJSON) <=> (\E i \in 1..Len(accepted) : IsRegistered(accepted[i]))

\* C2 witness: an entry that is no registered family ranks first and the walk
\* goes on to the JSON entry behind it.
C2_Witness ==
    /\ pc = "fit"
    /\ header = Join(<<XmlQ09, JsonQ08>>, ",")
    /\ accepted[1].subtype = <<"xml">>
    /\ accepted[2].subtype = <<"json">>
    /\ result = decodeTypeJSON

\* C3: entries tied on quality factor, type specificity, subtype specificity
\* and number of extensions come out in the order of their range tokens.
C3_TiesKeepHeaderOrder ==
    Returned =>
        \E p \in Rearrangements(Len(before)) :
            /\ accepted = Permuted(before, p)
            /\ KeepsTies(before, p)

\* C4: the returned list holds exactly the built entries, and no entry is
\* strictly preferred to the entry right before it.
C4_RankedPermutation ==
    Returned =>
        /\ SameEntries(accepted, before)
        /\ \A i \in 1..(Len(accepted) - 1) : ~Preferred(accepted[i + 1], accepted[i])

\* C4 witness: three entries that the sort had to rearrange.
C4_Witness ==
    /\ pc = "parsed"
    /\ Len(accepted) = 3
    /\ accepted # before
    /\ Preferred(accepted[1], accepted[2])
    /\ Preferred(accepted[2], accepted[3])

\* C5: a malformed range token among otherwise well-formed ones contributes
\* nothing; the header ranks as the header without that token does.
C5_MalformedTokenIsolated ==
    pc = "parsed" =>
        \A i \in 1..Len(RangesOf(header)) :
            (/\ Len(RangesOf(header)) >= 2
             /\ Malformed(RangesOf(header)[i])
             /\ \A k \in 1..Len(RangesOf(header)) : k # i => ~Malformed(RangesOf(header)[k]))
            => /\ accepted \in parseAcceptHeader(Join(Without(RangesOf(header), i), ","))
               /\ parseAcceptHeader(header) = parseAcceptHeader(Join(Without(RangesOf(header), i), ","))
               /\ Len(accepted) = Len(RangesOf(header)) - 1

\* C5 witness: a malformed token between two well-formed ones.
C5_Witness ==
    /\ pc = "parsed"
    /\ Len(RangesOf(header)) = 3
    /\ Malformed(RangesOf(header)[2])
    /\ ~Malformed(RangesOf(header)[1])
    /\ ~Malformed(RangesOf(header)[3])
    /\ Len(accepted) = 2

\* C6: every returned entry has a quality factor in [0.0, 1.0].
C6_QualityInUnitInterval ==
    Returned =>
        \A i \in 1..Len(accepted) :
            /\ accepted[i].qualityFactor.k = "num"
            /\ accepted[i].qualityFactor.v >= 0
            /\ accepted[i].qualityFactor.v <= 100

\* C8: sorting the returned list again leaves the order of its entries as it was.
C8_SortAgainKeepsOrder == pc = "resorted" => accepted = before

\* C9: the empty header gives the empty list, and JSON through the check for
\* the empty list.
C9_EmptyHeaderEmptyList ==
    (Returned /\ header = <<>>)
    => /\ accepted = <<>>
       /\ pc = "fit" => result = decodeTypeJSON

\* The parameter token v is a q parameter whose value the parser accepts.
ValidQParam(v) ==
    /\ Len(SplitN2(v, "=")) = 2
    /\ TrimSpace(SplitN2(v, "=")[1]) = <<"q">>
    /\ ~BadParam(v)

\* Quality values that parse and are not negative.
OtherQValues == {<<"0">>, <<"0", ".", "3">>, <<"1">>, <<"7">>, <<"NaN">>}

\* The range token t with the value of its k-th parameter replaced by q.
RangeWithQ(t, k, q) ==
    Join([Split(t, ";") EXCEPT ![k] = SplitN2(@, "=")[1] \o <<"=">> \o q], ";")

\* The headers that differ from h in the valid q value of one range.
QVariants(h) ==
    {Join([RangesOf(h) EXCEPT ![ikq[1]] = RangeWithQ(@, ikq[2], ikq[3])], ",") :
        ikq \in {x \in (1..Len(RangesOf(h))) \X (2..Len(h)) \X OtherQValues :
                    /\ x[2] <= Len(Split(RangesOf(h)[x[1]], ";"))
                    /\ ValidQParam(Split(RangesOf(h)[x[1]], ";")[x[2]])}}

\* The headers that hold the range tokens of h in another order.
Reorderings(h) ==
    {Join(Permuted(RangesOf(h), p), ",") : p \in Rearrangements(Len(RangesOf(h)))}

\* C10: the classification is the same for every reordering of the range
\* tokens and for every change of a valid q value to another valid one.
C10_ClassificationIgnoresRanking ==
    pc = "fit" =>
        \A h \in Reorderings(header) \cup QVariants(header) : Classifications(h) = {result}

\* C10 witness: a header whose ranking the variations change.
C10_Witness ==
    /\ pc = "fit"
    /\ header = Join(<<Html, JsonQ08, XmlQ09>>, ",")
    /\ Cardinality(Reorderings(header)) = 6
    /\ Cardinality(QVariants(header)) = 10
    /\ accepted # before
    /\ result = decodeTypeJSON

-----------------------------------------------------------------------------
(* Properties of the signing transport *)

\* The bytes a body delivers.
BodyBytes(b) == IF b.nil THEN <<>> ELSE b.data

\* The last value of the header field n, or <<>> when the field is absent.
LastValue(h, n) == IF n \in DOMAIN h THEN h[n][Len(h[n])] ELSE <<>>

\* The header field n is the same in the forwarded and in the given request.
SameField(n) ==
    /\ (n \in DOMAIN sent.Header) = (n \in DOMAIN given.Header)
    /\ n \in DOMAIN given.Header => sent.Header[n] = given.Header[n]

\* The signature, the timestamp and the key identifier are attached.
Attached ==
    /\ LastValue(sent.Header, AccessKey) = auth.key
    /\ \E now \in Clock :
          /\ LastValue(sent.Header, AccessTimestamp) = FormatInt(now, 10)
          /\ LastValue(sent.Header, AccessSign)
                = EncodedHMAC(Base64Decode(auth.secret).bytes,
                      FormatInt(now, 10) \o given.Method
                      \o ReplaceFirstWithEmpty(URLString(given.URL), URLString(auth.url))
                      \o BodyBytes(given.Body))

\* C7 as stated: on success the signature, the timestamp and the key are
\* attached and the method, the URL, the body bytes and every other header
\* field are those of the given request.
C7_ForwardedOtherwiseUnchanged ==
    rtErr = "ok" =>
        /\ Attached
        /\ sent.Method = given.Method
        /\ sent.URL = given.URL
        /\ BodyBytes(sent.Body) = BodyBytes(given.Body)
        /\ \A n \in ((DOMAIN sent.Header) \cup (DOMAIN given.Header))
                        \ {AccessSign, AccessTimestamp, AccessKey} : SameField(n)

\* C7 amended: on success the signature, the timestamp, the key and the
\* passphrase are attached, content-type is application/json, the URL has the
\* scheme and host of the configured URL, and the method, the URL path, the
\* body bytes and every other header field are those of the given request.
C7_ForwardedAsSigned ==
    rtErr = "ok" =>
        /\ Attached
        /\ LastValue(sent.Header, AccessPassphrase) = auth.passphrase
        /\ sent.Header[ContentType] = <<<<"application", "/", "json">>>>
        /\ sent.URL.Scheme = auth.url.Scheme
        /\ sent.URL.Host = auth.url.Host
        /\ sent.Method = given.Method
        /\ sent.URL.Path = given.URL.Path
        /\ sent.Body.nil = given.Body.nil
        /\ BodyBytes(sent.Body) = BodyBytes(given.Body)
        /\ \A n \in ((DOMAIN sent.Header) \cup (DOMAIN given.Header))
                        \ {AccessSign, AccessTimestamp, AccessKey, AccessPassphrase, ContentType} :
              SameField(n)

\* C7 witness: a request with a body, a content-type of its own and another
\* host went through.
C7_Witness ==
    /\ rtErr = "ok"
    /\ given.Method = <<"POST">>
    /\ given.Body = Reader(<<"{", "}">>, FALSE)
    /\ ContentType \in DOMAIN given.Header
    /\ given.Header[ContentType] # sent.Header[ContentType]
    /\ given.URL.Host # sent.URL.Host
    /\ auth.key # <<>>

=============================================================================
